---- MODULE Spec2Model ----
(***************************************************************************)
(* A model of RFYL (src/src/lib.rs): dice-notation parsing into postfix    *)
(* form (parse_into_rpn), dice resolution (resolve_rolls_vector,           *)
(* resolve_roll_fragment), postfix evaluation (solve_rpn_formula) and      *)
(* infix rendering (parse_into_infix).                                     *)
(*                                                                         *)
(* A Rust String is a sequence of characters; a character is a one-symbol  *)
(* TLA+ string.  The three non-ASCII operator glyphs are written by their  *)
(* code points: "U+2212" is the minus sign, "U+00D7" the multiplication    *)
(* sign and "U+00F7" the division sign.  A Vec<String> is a sequence of    *)
(* such sequences.  A call that panics yields a record of kind "panic"     *)
(* carrying the panic message's fixed part.                                *)
(***************************************************************************)
EXTENDS Integers, Sequences, FiniteSets, TLC

VARIABLES
    tc,            \* the case under test: the parts the input is written from
    input,         \* the text handed to roll / parse_into_rpn
    pc,            \* the position of the calling sequence
    postfix,       \* the postfix Vec<String> handed to solve_rpn_formula / parse_into_infix
    rolls_vector,  \* resolve_rolls_vector: its argument
    idx,           \* resolve_rolls_vector: the position of its for loop
    dice_rolls,    \* resolve_rolls_vector: DiceRolls.rolls being built
    formula_vector,            \* resolve_rolls_vector: DiceRolls.formula being built
    formula_vector_with_rolls, \* resolve_rolls_vector: DiceRolls.rolls_formula being built
    result,        \* what solve_rpn_formula / get_result (or a panicking roll) ended in
    infix,         \* what parse_into_infix ended in
    reparsed       \* parse_into_rpn of the rendered infix string

vars == <<tc, input, pc, postfix, rolls_vector, idx, dice_rolls, formula_vector,
          formula_vector_with_rolls, result, infix, reparsed>>

-----------------------------------------------------------------------------
(* Characters and integers as text *)

Digits == <<"0", "1", "2", "3", "4", "5", "6", "7", "8", "9">>

IsDigit(c) == \E i \in 1..10 : Digits[i] = c

DigitVal(c) == (CHOOSE i \in 1..10 : Digits[i] = c) - 1

I32Max == 2147483647

I32Min == -I32Max - 1

RECURSIVE DigitsValue(_, _, _)
\* i32::from_str_radix over a run of decimal digits, most significant first:
\* the value is built by acc * 10 + d for a positive and acc * 10 - d for a
\* negative number, and a step that leaves i32 is an error
DigitsValue(s, acc, negative) ==
    IF s = <<>> THEN [ok |-> TRUE, val |-> acc]
    ELSE LET d == DigitVal(Head(s))
             fits == IF negative
                     THEN acc > -214748364 \/ (acc = -214748364 /\ d <= 8)
                     ELSE acc < 214748364 \/ (acc = 214748364 /\ d <= 7)
         IN  IF fits
             THEN DigitsValue(Tail(s), IF negative THEN acc * 10 - d ELSE acc * 10 + d,
                              negative)
             ELSE [ok |-> FALSE, val |-> 0]

\* str::parse::<i32>(): an optional '+' or '-' sign, then at least one ASCII
\* digit and nothing else; a value outside i32 is an error
ParseI32(s) ==
    LET signed == s # <<>> /\ Head(s) \in {"+", "-"}
        body   == IF signed THEN Tail(s) ELSE s
        wellformed == body # <<>> /\ \A i \in 1..Len(body) : IsDigit(body[i])
    IN  IF wellformed
        THEN DigitsValue(body, 0, signed /\ Head(s) = "-")
        ELSE [ok |-> FALSE, val |-> 0]

RECURSIVE NatToString(_)
NatToString(n) ==
    IF n < 10 THEN <<Digits[n + 1]>>
    ELSE NatToString(n \div 10) \o <<Digits[(n % 10) + 1]>>

\* i32::to_string()
to_string(n) ==
    IF n = I32Min THEN <<"-">> \o NatToString(214748364) \o <<"8">>
    ELSE IF n < 0 THEN <<"-">> \o NatToString(-n) ELSE NatToString(n)

-----------------------------------------------------------------------------
(* Token Classifier *)

\* match_token with "*" and the multiplication sign given the precedence of
\* "+" (a slip in one column of the table)
match_token_times_as_plus(token) ==
    IF Len(token) # 1 THEN 0
    ELSE CASE token[1] = "/"      -> 4
           [] token[1] = "U+00F7" -> 4
           [] token[1] = "*"      -> 2
           [] token[1] = "U+00D7" -> 2
           [] token[1] = "+"      -> 2
           [] token[1] = "U+2212" -> 1
           [] token[1] = "-"      -> 1
           [] token[1] = "("      -> -1
           [] token[1] = ")"      -> -2
           [] token[1] = "%"      -> -3
           [] OTHER               -> 0

\* match_token: the precedence class of a token (a whole string, not a char)
match_token(token) ==
    IF Len(token) # 1 THEN 0
    ELSE CASE token[1] = "/"      -> 4
           [] token[1] = "U+00F7" -> 4
           [] token[1] = "*"      -> 3
           [] token[1] = "U+00D7" -> 3
           [] token[1] = "+"      -> 2
           [] token[1] = "U+2212" -> 1
           [] token[1] = "-"      -> 1
           [] token[1] = "("      -> -1
           [] token[1] = ")"      -> -2
           [] token[1] = "%"      -> -3
           [] OTHER               -> 0

-----------------------------------------------------------------------------
(* Shunting-Yard Parser *)

RECURSIVE Replace(_, _)
\* String::replace(c, ""): every occurrence of the character c removed
Replace(s, c) ==
    IF s = <<>> THEN <<>>
    ELSE IF Head(s) = c THEN Replace(Tail(s), c)
    ELSE <<Head(s)>> \o Replace(Tail(s), c)

RECURSIVE PopWhileAtLeast(_, _, _)
\* the `while let Some(top) = operator_stack.pop()` loop of the operator
\* case: emit every top whose precedence is >= the operator's, stop at the
\* first that is lower (pushed back) or at the empty stack
PopWhileAtLeast(operator_stack, precedence, emitted) ==
    IF operator_stack = <<>>
    THEN [stack |-> <<>>, emitted |-> emitted]
    ELSE LET top == operator_stack[Len(operator_stack)]
             rest == SubSeq(operator_stack, 1, Len(operator_stack) - 1)
         IN  IF match_token(top) >= precedence
             THEN PopWhileAtLeast(rest, precedence, Append(emitted, top))
             ELSE [stack |-> operator_stack, emitted |-> emitted]

RECURSIVE PopToLeftBracket_emitting(_, _)
\* the right-bracket pop loop with the break placed after the push: the "("
\* is emitted too
PopToLeftBracket_emitting(operator_stack, emitted) ==
    IF operator_stack = <<>>
    THEN [stack |-> <<>>, emitted |-> emitted]
    ELSE LET top == operator_stack[Len(operator_stack)]
             rest == SubSeq(operator_stack, 1, Len(operator_stack) - 1)
         IN  IF match_token(top) = -1
             THEN [stack |-> rest, emitted |-> Append(emitted, top)]
             ELSE PopToLeftBracket_emitting(rest, Append(emitted, top))

RECURSIVE PopToLeftBracket(_, _)
\* the pop loop of the right-bracket case: emit until a "(" is popped (and
\* dropped) or the stack is empty
PopToLeftBracket(operator_stack, emitted) ==
    IF operator_stack = <<>>
    THEN [stack |-> <<>>, emitted |-> emitted]
    ELSE LET top == operator_stack[Len(operator_stack)]
             rest == SubSeq(operator_stack, 1, Len(operator_stack) - 1)
         IN  IF match_token(top) = -1
             THEN [stack |-> rest, emitted |-> emitted]
             ELSE PopToLeftBracket(rest, Append(emitted, top))

RECURSIVE Reverse(_)
Reverse(s) == IF s = <<>> THEN <<>> ELSE Append(Reverse(Tail(s)), Head(s))

\* one iteration of `for c in formula.chars()`; st is the loop's state
\* [formula_vector, active_segment, operator_stack, lorb]
ParseChar(st, c) ==
    LET cs == <<c>>
        precedence == match_token(cs)
    IN  CASE precedence > 0 ->
               IF Len(st.active_segment) > 0
               THEN LET popped == PopWhileAtLeast(st.operator_stack, precedence, <<>>)
                    IN  [st EXCEPT
                           !.formula_vector = Append(@, st.active_segment) \o popped.emitted,
                           !.active_segment = <<>>,
                           !.operator_stack = Append(popped.stack, cs)]
               ELSE IF st.lorb
               THEN [st EXCEPT !.operator_stack = Append(@, cs)]
               ELSE [st EXCEPT !.active_segment = Append(@, c)]
          [] precedence = -1 ->
               [st EXCEPT !.lorb = FALSE, !.operator_stack = Append(@, cs)]
          [] precedence = -2 ->
               LET flushed == IF Len(st.active_segment) > 0
                              THEN [st EXCEPT
                                      !.formula_vector = Append(@, st.active_segment),
                                      !.active_segment = <<>>,
                                      !.lorb = TRUE]
                              ELSE st
                   popped == PopToLeftBracket(flushed.operator_stack, <<>>)
               IN  [flushed EXCEPT
                      !.formula_vector = @ \o popped.emitted,
                      !.operator_stack = popped.stack]
          [] OTHER ->
               [st EXCEPT !.lorb = FALSE, !.active_segment = Append(@, c)]

RECURSIVE ParseChars(_, _)
ParseChars(st, formula) ==
    IF formula = <<>> THEN st
    ELSE ParseChars(ParseChar(st, Head(formula)), Tail(formula))

\* parse_into_rpn: infix text to a postfix Vec<String>
parse_into_rpn(input_formula) ==
    LET formula == Replace(Replace(input_formula, " "), "_")
        st == ParseChars([formula_vector |-> <<>>, active_segment |-> <<>>,
                          operator_stack |-> <<>>, lorb |-> FALSE], formula)
        flushed == IF Len(st.active_segment) > 0
                   THEN Append(st.formula_vector, st.active_segment)
                   ELSE st.formula_vector
    IN  flushed \o Reverse(st.operator_stack)

-----------------------------------------------------------------------------
(* Infix Renderer *)

RECURSIVE InfixLoop(_, _)
\* the `for e in input_formula` loop; a panic ends it
InfixLoop(formula_vec, input_formula) ==
    IF input_formula = <<>> THEN [kind |-> "ok", stack |-> formula_vec]
    ELSE LET e == Head(input_formula)
         IN  IF match_token(e) > 0
             THEN IF Len(formula_vec) < 2
                  THEN [kind |-> "panic", stack |-> formula_vec,
                        msg |-> "Insufficient values in expression start"]
                  ELSE LET a == formula_vec[Len(formula_vec)]
                           b == formula_vec[Len(formula_vec) - 1]
                           rest == SubSeq(formula_vec, 1, Len(formula_vec) - 2)
                       IN  InfixLoop(
                             Append(rest, <<"(", " ">> \o b \o <<" ">> \o e
                                          \o <<" ">> \o a \o <<" ", ")">>),
                             Tail(input_formula))
             ELSE InfixLoop(Append(formula_vec, e), Tail(input_formula))

\* parse_into_infix: postfix Vec<String> to a fully bracketed string
parse_into_infix(input_formula) ==
    LET r == InfixLoop(<<>>, input_formula)
    IN  IF r.kind = "panic" THEN [kind |-> "panic", msg |-> r.msg, str |-> <<>>]
        ELSE IF Len(r.stack) = 1 THEN [kind |-> "ok", msg |-> "", str |-> r.stack[1]]
        ELSE IF Len(r.stack) > 1
        THEN [kind |-> "panic", msg |-> "Too many values in postfix formula", str |-> <<>>]
        ELSE [kind |-> "panic", msg |-> "Not enough values in postfix formula", str |-> <<>>]

-----------------------------------------------------------------------------
(* RPN Evaluator *)

RECURSIVE Pow2(_)
Pow2(n) == IF n = 0 THEN 1 ELSE 2 * Pow2(n - 1)

RECURSIVE BitLen(_)
\* the number of binary digits of n >= 1
BitLen(n) == IF n < 2 THEN 1 ELSE 1 + BitLen(n \div 2)

\* round to nearest, ties to even: q is the value cut off, rem what was cut
\* off and unit the weight of q's last place
RoundNearestEven(q, rem, unit) ==
    IF 2 * rem > unit \/ (2 * rem = unit /\ q % 2 = 1) THEN q + 1 ELSE q

\* a rounded 24-bit significand back in [2^23, 2^24): a carry out of the top
\* bit moves the exponent
Normalized(m, e) ==
    IF m = Pow2(24) THEN [m |-> Pow2(23), e |-> e + 1] ELSE [m |-> m, e |-> e]

\* `n as f32` for the magnitude of an i32 n # 0: the f32 m * 2^e, with
\* 2^23 <= m < 2^24, nearest to |n|
ToF32(n) ==
    IF n = I32Min THEN [m |-> Pow2(23), e |-> 8]
    ELSE LET mag == IF n < 0 THEN -n ELSE n
             len == BitLen(mag)
         IN  IF len <= 24
             THEN [m |-> mag * Pow2(24 - len), e |-> len - 24]
             ELSE LET unit == Pow2(len - 24)
                  IN  Normalized(RoundNearestEven(mag \div unit, mag % unit, unit),
                                 len - 24)

RECURSIVE LongDiv(_, _, _, _)
\* k further binary digits of a quotient q with remainder r < d
LongDiv(q, r, d, k) ==
    IF k = 0 THEN [q |-> q, r |-> r]
    ELSE IF 2 * r >= d THEN LongDiv(2 * q + 1, 2 * r - d, d, k - 1)
    ELSE LongDiv(2 * q, 2 * r, d, k - 1)

\* the f32 quotient x / y of two f32 magnitudes: the exact quotient rounded
\* to 24 significant bits
DivF32(x, y) ==
    LET k == IF x.m >= y.m THEN 23 ELSE 24
        qr == LongDiv(x.m \div y.m, x.m % y.m, y.m, k)
    IN  Normalized(RoundNearestEven(qr.q, qr.r, y.m), x.e - y.e - k)

\* f32::round() of the magnitude f, half away from zero, then `as i32`
\* for the sign given: a value outside i32 saturates
RoundToI32(f, negative) ==
    IF f.e >= 8 THEN (IF negative THEN I32Min ELSE I32Max)
    ELSE LET mag == IF f.e >= 0 THEN f.m * Pow2(f.e)
                    ELSE IF -f.e > 24 THEN 0
                    ELSE LET unit == Pow2(-f.e)
                         IN  (f.m \div unit) + (IF 2 * (f.m % unit) >= unit THEN 1 ELSE 0)
         IN  IF negative THEN -mag ELSE mag

\* (b as f32 / a as f32).round() as i32, a # 0: both operands are rounded to
\* f32, the quotient is an f32, and f32::round rounds half away from zero
RoundDiv(b, a) ==
    IF b = 0 THEN 0
    ELSE RoundToI32(DivF32(ToF32(b), ToF32(a)), (b < 0) # (a < 0))

RECURSIVE SolveLoop(_, _)
\* the `for e in formula.iter()` loop; a panic ends it.  (b * a, b + a and
\* b - a are exact here: a result outside i32 panics in a build with overflow
\* checks and wraps in one without, and no case of this model reaches one.)
SolveLoop(working_stack, formula) ==
    IF formula = <<>> THEN [kind |-> "ok", stack |-> working_stack, msg |-> ""]
    ELSE LET e == Head(formula)
             n == Len(working_stack)
         IN  IF ParseI32(e).ok
             THEN SolveLoop(Append(working_stack, ParseI32(e).val), Tail(formula))
             ELSE IF n = 0
             THEN [kind |-> "panic", stack |-> working_stack,
                   msg |-> "Left hand token in evaluation doesn't exist"]
             ELSE IF n = 1
             THEN [kind |-> "panic", stack |-> <<>>,
                   msg |-> "Right hand token in evaluation doesn't exist"]
             ELSE LET a == working_stack[n]
                      b == working_stack[n - 1]
                      rest == SubSeq(working_stack, 1, n - 2)
                      p == match_token(e)
                  IN  IF p = 4 /\ a = 0
                      THEN [kind |-> "panic", stack |-> rest, msg |-> "Divide by zero"]
                      ELSE IF p \in 1..4
                      THEN SolveLoop(
                             Append(rest, CASE p = 4 -> RoundDiv(b, a)
                                            [] p = 3 -> b * a
                                            [] p = 2 -> b + a
                                            [] p = 1 -> b - a),
                             Tail(formula))
                      ELSE [kind |-> "panic", stack |-> rest, msg |-> "Invalid operator"]

\* solve_rpn_formula: the top of the stack after the last token, 0 when the
\* stack is empty
solve_rpn_formula(formula) ==
    LET r == SolveLoop(<<>>, formula)
    IN  IF r.kind = "panic" THEN [kind |-> "panic", msg |-> r.msg, value |-> 0]
        ELSE [kind |-> "ok", msg |-> "",
              value |-> IF r.stack = <<>> THEN 0 ELSE r.stack[Len(r.stack)]]

-----------------------------------------------------------------------------
(* Dice Resolver *)

\* Rng::gen_range(low, high): a value of the half-open range [low, high);
\* the call panics when low >= high, which is the empty set here
gen_range(low, high) == low..(high - 1)

RECURSIVE SplitAtD(_, _, _, _, _)
\* the `for (i, c) in input_fragment.chars().enumerate()` loop: the text
\* before the first 'd' is the count ("1" when the 'd' comes first), the
\* text after it the sides
SplitAtD(chars, i, d_switch, dice_count_str, dice_sides_str) ==
    IF chars = <<>>
    THEN [dice_count_str |-> dice_count_str, dice_sides_str |-> dice_sides_str]
    ELSE LET c == Head(chars)
         IN  IF ~d_switch
             THEN IF c = "d"
                  THEN SplitAtD(Tail(chars), i + 1, TRUE,
                                IF i = 0 THEN dice_count_str \o <<"1">> ELSE dice_count_str,
                                dice_sides_str)
                  ELSE SplitAtD(Tail(chars), i + 1, FALSE,
                                Append(dice_count_str, c), dice_sides_str)
             ELSE SplitAtD(Tail(chars), i + 1, TRUE,
                           dice_count_str, Append(dice_sides_str, c))

RECURSIVE get_sum_of_rolls(_)
\* DiceRolls::get_sum_of_rolls
get_sum_of_rolls(rolls) ==
    IF rolls = <<>> THEN 0 ELSE Head(rolls).result + get_sum_of_rolls(Tail(rolls))

PanicRoll(msg) == [kind |-> "panic", msg |-> msg, rolls |-> <<>>]

\* resolve_roll_fragment: every DiceRolls the call can return for the
\* fragment (one per outcome of the random draws), or its panic
resolve_roll_fragment(input_fragment) ==
    IF ParseI32(input_fragment).ok
    THEN {[kind |-> "ok", msg |-> "",
           rolls |-> <<[sides |-> 0, result |-> ParseI32(input_fragment).val]>>]}
    ELSE LET parts == SplitAtD(input_fragment, 0, FALSE, <<>>, <<>>)
             count == ParseI32(parts.dice_count_str)
             sides == ParseI32(parts.dice_sides_str)
             dice_sides == IF sides.ok THEN sides.val ELSE 100
         IN  IF ~count.ok
             THEN {PanicRoll("Dice count value is invalid")}
             ELSE IF ~sides.ok /\ match_token(parts.dice_sides_str) # -3
             THEN {PanicRoll("Dice sides value is invalid")}
             ELSE IF count.val >= 1 /\ gen_range(1, dice_sides) = {}
             THEN {PanicRoll("Rng.gen_range called with low >= high")}
             ELSE {[kind |-> "ok", msg |-> "", rolls |-> draws] :
                     draws \in [1..count.val ->
                                  [sides : {dice_sides},
                                   result : gen_range(1, dice_sides)]]}

-----------------------------------------------------------------------------
(* The cases under test *)

MaxOperand == 3

MaxCount == 3

MaxSides == 4

MaxOps == 2

Operands == (-1)..MaxOperand

AdditiveOps == {"+", "-", "U+2212"}

MultiplicativeOps == {"*", "U+00D7", "/", "U+00F7"}

DivisionOps == {"/", "U+00F7"}

Operators == AdditiveOps \cup MultiplicativeOps

\* the level of an operator in the grammar: expr (1) or term (2)
Level(op) == IF op \in AdditiveOps THEN 1 ELSE 2

ThreeOperandForms == {"a op1 b op2 c", "a op1 (b) op2 c", "(a op1 b) op2 c"}

ThreeOperandCases ==
    [form : ThreeOperandForms, a : Operands, op1 : Operators,
     b : Operands, op2 : Operators, c : Operands]

\* the examples of parse_into_rpn's documentation and tests
ExampleCases ==
    {[form |-> "a op1 b op2 c", a |-> 3, op1 |-> "+", b |-> 4, op2 |-> "*", c |-> 6],
     [form |-> "(a op1 b) op2 c", a |-> 2, op1 |-> "U+2212", b |-> 1,
      op2 |-> "U+00D7", c |-> 3]}

ExprCases == ThreeOperandCases \cup ExampleCases

BracketForms == {"(a op b", "a op b)", "(a op b)"}

BracketCases == [form : BracketForms, a : {3}, op : Operators, b : {0, 4}]

\* "NdS", "dS" (count omitted), "Nd%", "Nd100"
DiceCases ==
    [form : {"NdS"}, count : (-2)..MaxCount, omitted : {FALSE},
     sides : 0..MaxSides, percent : {FALSE}]
    \cup [form : {"NdS"}, count : {1}, omitted : {TRUE},
          sides : 1..MaxSides, percent : {FALSE}]
    \cup [form : {"NdS"}, count : 0..1, omitted : {FALSE},
          sides : {100}, percent : BOOLEAN]
    \cup [form : {"NdS"}, count : {1}, omitted : {TRUE},
          sides : {100}, percent : BOOLEAN]

IntegerCases == [form : {"n"}, a : Operands]

\* a plain integer with whitespace around it
PaddedCases ==
    [form : {"ws n ws"}, a : Operands,
     lead : {<<>>, <<"\t">>, <<" ", "U+00A0">>}, trail : {<<>>, <<"\n">>, <<"\r", "\n">>}]

RollCases == BracketCases \cup DiceCases \cup IntegerCases \cup PaddedCases

Sp == <<" ">>

\* the input text of a case
Format(c) ==
    CASE c.form = "a op1 b op2 c" ->
           to_string(c.a) \o Sp \o <<c.op1>> \o Sp \o to_string(c.b) \o Sp
           \o <<c.op2>> \o Sp \o to_string(c.c)
      [] c.form = "a op1 (b) op2 c" ->
           to_string(c.a) \o Sp \o <<c.op1>> \o Sp \o <<"(">> \o to_string(c.b)
           \o <<")">> \o Sp \o <<c.op2>> \o Sp \o to_string(c.c)
      [] c.form = "(a op1 b) op2 c" ->
           <<"(">> \o to_string(c.a) \o Sp \o <<c.op1>> \o Sp \o to_string(c.b)
           \o <<")">> \o Sp \o <<c.op2>> \o Sp \o to_string(c.c)
      [] c.form = "(a op b" ->
           <<"(">> \o to_string(c.a) \o <<c.op>> \o to_string(c.b)
      [] c.form = "a op b)" ->
           to_string(c.a) \o <<c.op>> \o to_string(c.b) \o <<")">>
      [] c.form = "(a op b)" ->
           <<"(">> \o to_string(c.a) \o <<c.op>> \o to_string(c.b) \o <<")">>
      [] c.form = "NdS" ->
           (IF c.omitted THEN <<>> ELSE to_string(c.count)) \o <<"d">>
           \o (IF c.percent THEN <<"%">> ELSE to_string(c.sides))
      [] c.form = "n" -> to_string(c.a)
      [] c.form = "ws n ws" -> c.lead \o to_string(c.a) \o c.trail

\* the operand texts of the well-formed postfix sequences
WfOperands == {<<"3">>, <<"2", "d", "6">>, <<"d", "%">>}

RECURSIVE Trees(_)
\* the shapes of the expression trees with exactly k binary operators: <<>>
\* is an operand, <<l, r>> an operator over the subtrees l and r
Trees(k) ==
    IF k = 0 THEN {<<>>}
    ELSE UNION {{<<l, r>> : l \in Trees(i), r \in Trees(k - 1 - i)} : i \in 0..(k - 1)}

RECURSIVE Nodes(_)
\* the number of operators of a tree; it has one operand more
Nodes(t) == IF t = <<>> THEN 0 ELSE Nodes(t[1]) + Nodes(t[2]) + 1

RECURSIVE TreePostfix(_, _, _, _, _)
\* the postfix sequence of the tree t whose operands are fragments[o + 1 ..]
\* from left to right and whose operators are ops[x + 1 ..] in postfix order
TreePostfix(t, fragments, ops, o, x) ==
    IF t = <<>> THEN <<fragments[o + 1]>>
    ELSE TreePostfix(t[1], fragments, ops, o, x)
         \o TreePostfix(t[2], fragments, ops, o + Nodes(t[1]) + 1, x + Nodes(t[1]))
         \o <<<<ops[x + Nodes(t)]>>>>

RECURSIVE TreeInfix(_, _, _, _, _)
\* the fully bracketed infix text of the same tree, left subtree first
TreeInfix(t, fragments, ops, o, x) ==
    IF t = <<>> THEN fragments[o + 1]
    ELSE <<"(", " ">> \o TreeInfix(t[1], fragments, ops, o, x)
         \o Sp \o <<ops[x + Nodes(t)]>> \o Sp
         \o TreeInfix(t[2], fragments, ops, o + Nodes(t[1]) + 1, x + Nodes(t[1]))
         \o <<" ", ")">>

\* a well-formed postfix sequence: every operator finds two fragments and one
\* fragment remains
WellFormedCase(t, fragments, ops) ==
    [form |-> "well-formed", ops |-> Nodes(t),
     post |-> TreePostfix(t, fragments, ops, 0, 0),
     inf |-> TreeInfix(t, fragments, ops, 0, 0)]

\* operands at which f32 arithmetic is no longer exact
LargeOperands == {4097, 8193, 8392704, 8393728, 12582913, 16777217, 1000000007, I32Max, I32Min}

\* hand-built numeric postfix sequences: with one operator, with two values
\* and no operator, with one value and an operator, and the empty one
PostfixCases ==
    [form : {"b a op"}, b : Operands, a : Operands, op : Operators]
    \cup [form : {"b a op"}, b : LargeOperands, a : LargeOperands \cup {0, 1, 3},
          op : DivisionOps]
    \cup [form : {"b a"}, b : Operands, a : Operands]
    \cup [form : {"b op"}, b : Operands, op : Operators]
    \cup {[form |-> "empty"]}

PostfixOf(c) ==
    CASE c.form = "well-formed" -> c.post
      [] c.form = "b a op" -> <<to_string(c.b), to_string(c.a), <<c.op>>>>
      [] c.form = "b a" -> <<to_string(c.b), to_string(c.a)>>
      [] c.form = "b op" -> <<to_string(c.b), <<c.op>>>>
      [] c.form = "empty" -> <<>>

-----------------------------------------------------------------------------
(* The calls *)

NoResult == [kind |-> "none", msg |-> "", value |-> 0]

NoInfix == [kind |-> "none", msg |-> "", str |-> <<>>]

InitCommon ==
    /\ rolls_vector = <<>>
    /\ idx = 1
    /\ dice_rolls = <<>>
    /\ formula_vector = <<>>
    /\ formula_vector_with_rolls = <<>>
    /\ result = NoResult
    /\ infix = NoInfix
    /\ reparsed = <<>>

\* a text about to be handed to parse_into_rpn
InitExpr ==
    /\ tc \in ExprCases
    /\ input = Format(tc)
    /\ pc = "parse"
    /\ postfix = <<>>
    /\ InitCommon

\* a text about to be handed to roll
InitRoll ==
    /\ tc \in RollCases
    /\ input = Format(tc)
    /\ pc = "roll"
    /\ postfix = <<>>
    /\ InitCommon

\* a hand-built postfix sequence about to be handed to solve_rpn_formula and
\* parse_into_infix
InitPostfix ==
    /\ \/ tc \in PostfixCases
       \/ \E k \in 0..MaxOps : \E t \in Trees(k) :
            \E fragments \in [1..(k + 1) -> WfOperands] : \E ops \in [1..k -> Operators] :
               tc = WellFormedCase(t, fragments, ops)
    /\ input = <<>>
    /\ pc = "parsed"
    /\ postfix = PostfixOf(tc)
    /\ InitCommon

Init == InitExpr \/ InitRoll \/ InitPostfix

RollVars == <<rolls_vector, idx, dice_rolls, formula_vector, formula_vector_with_rolls>>

\* parse_into_rpn(input)
ParseIntoRpn ==
    /\ pc = "parse"
    /\ postfix' = parse_into_rpn(input)
    /\ pc' = "parsed"
    /\ UNCHANGED <<tc, input, RollVars, result, infix, reparsed>>

\* solve_rpn_formula(postfix)
SolveRpnFormula ==
    /\ pc = "parsed"
    /\ result' = solve_rpn_formula(postfix)
    /\ pc' = "solved"
    /\ UNCHANGED <<tc, input, postfix, RollVars, infix, reparsed>>

\* parse_into_infix(postfix), a call of its own on the same sequence
ParseIntoInfix ==
    /\ pc = "solved"
    /\ infix' = parse_into_infix(postfix)
    /\ pc' = "rendered"
    /\ UNCHANGED <<tc, input, postfix, RollVars, result, reparsed>>

\* parse_into_rpn of the string parse_into_infix returned
ParseInfixBack ==
    /\ pc = "rendered"
    /\ infix.kind = "ok"
    /\ reparsed' = parse_into_rpn(infix.str)
    /\ pc' = "reparsed"
    /\ UNCHANGED <<tc, input, postfix, RollVars, result, infix>>

\* char::is_whitespace: the characters with the Unicode property White_Space
\* (those without an escape are written by their code points)
WhiteSpace ==
    {" ", "\t", "\n", "\f", "\r", "U+000B", "U+0085", "U+00A0", "U+1680",
     "U+2000", "U+2001", "U+2002", "U+2003", "U+2004", "U+2005", "U+2006",
     "U+2007", "U+2008", "U+2009", "U+200A", "U+2028", "U+2029", "U+202F",
     "U+205F", "U+3000"}

RECURSIVE TrimStart(_)
\* str::trim_start(): leading whitespace removed
TrimStart(s) == IF s # <<>> /\ Head(s) \in WhiteSpace THEN TrimStart(Tail(s)) ELSE s

\* str::trim(): leading and trailing whitespace removed
Trim(s) == Reverse(TrimStart(Reverse(TrimStart(s))))

\* roll(input), up to its call of resolve_rolls_vector
Roll ==
    /\ pc = "roll"
    /\ rolls_vector' = parse_into_rpn(Trim(input))
    /\ idx' = 1
    /\ pc' = IF rolls_vector' = <<>> THEN "rolled" ELSE "resolving"
    /\ UNCHANGED <<tc, input, postfix, dice_rolls, formula_vector,
                   formula_vector_with_rolls, result, infix, reparsed>>

\* resolve_rolls_vector: one iteration of `for element in rolls_vector`, and
\* the return after the last one; a panic of resolve_roll_fragment ends roll
ResolveElement ==
    /\ pc = "resolving"
    /\ LET element == rolls_vector[idx]
           after == IF idx = Len(rolls_vector) THEN "rolled" ELSE "resolving"
       IN  IF match_token(element) > 0
           THEN /\ formula_vector' = Append(formula_vector, element)
                /\ formula_vector_with_rolls' = Append(formula_vector_with_rolls, element)
                /\ idx' = idx + 1
                /\ pc' = after
                /\ UNCHANGED <<dice_rolls, result>>
           ELSE \E roll \in resolve_roll_fragment(element) :
                  IF roll.kind = "panic"
                  THEN /\ result' = [kind |-> "panic", msg |-> roll.msg, value |-> 0]
                       /\ pc' = "panicked"
                       /\ UNCHANGED <<idx, dice_rolls, formula_vector,
                                      formula_vector_with_rolls>>
                  ELSE /\ dice_rolls' = dice_rolls \o roll.rolls
                       /\ formula_vector' =
                            Append(formula_vector, to_string(get_sum_of_rolls(roll.rolls)))
                       /\ formula_vector_with_rolls' =
                            Append(formula_vector_with_rolls, element)
                       /\ idx' = idx + 1
                       /\ pc' = after
                       /\ UNCHANGED result
    /\ UNCHANGED <<tc, input, postfix, rolls_vector, infix, reparsed>>

\* DiceRolls::get_result on the object roll returned
GetResult ==
    /\ pc = "rolled"
    /\ result' = solve_rpn_formula(formula_vector)
    /\ pc' = "done"
    /\ UNCHANGED <<tc, input, postfix, RollVars, infix, reparsed>>

NextExpr == ParseIntoRpn \/ SolveRpnFormula \/ ParseIntoInfix \/ ParseInfixBack

NextRoll == Roll \/ ResolveElement \/ GetResult

NextPostfix == SolveRpnFormula \/ ParseIntoInfix \/ ParseInfixBack

Next == NextExpr \/ NextRoll

SpecExpr == InitExpr /\ [][NextExpr]_vars

SpecRoll == InitRoll /\ [][NextRoll]_vars

SpecPostfix == InitPostfix /\ [][NextPostfix]_vars

Spec == Init /\ [][Next]_vars

-----------------------------------------------------------------------------
(* What the grammar of the specification says of a three-operand case *)

Parsed == pc \in {"parsed", "solved", "rendered", "reparsed"}

Solved == pc \in {"solved", "rendered", "reparsed"}

\* the postfix form of the grammar's parse tree: op2 is applied first only
\* when it stands at the tighter level and no bracket closes before it
GrammarPostfix(c) ==
    IF c.form # "(a op1 b) op2 c" /\ Level(c.op2) > Level(c.op1)
    THEN <<to_string(c.a), to_string(c.b), to_string(c.c), <<c.op2>>, <<c.op1>>>>
    ELSE <<to_string(c.a), to_string(c.b), <<c.op1>>, to_string(c.c), <<c.op2>>>>

Abs(n) == IF n < 0 THEN -n ELSE n

\* x / y rounded to the nearest integer, halves away from zero
NearestDiv(x, y) ==
    LET q == (2 * Abs(x) + Abs(y)) \div (2 * Abs(y))
    IN  IF (x < 0) # (y < 0) THEN -q ELSE q

\* x op y, with division rounded to the nearest integer
Apply(op, x, y) ==
    CASE op = "+" -> x + y
      [] op \in {"-", "U+2212"} -> x - y
      [] op \in {"*", "U+00D7"} -> x * y
      [] op \in DivisionOps -> NearestDiv(x, y)

\* (a op1 b) op2 c is defined: no division by zero in it
LeftTreeDefined(c) ==
    /\ c.op1 \in DivisionOps => c.b # 0
    /\ c.op2 \in DivisionOps => c.c # 0

LeftTreeValue(c) == Apply(c.op2, Apply(c.op1, c.a, c.b), c.c)

Unsigned(c) == c.a >= 0 /\ c.b >= 0 /\ c.c >= 0

-----------------------------------------------------------------------------
(* Claims *)

\* C1: two operators of the same grammar level associate to the left:
\* parse_into_rpn("a op1 b op2 c") is [a, b, op1, c, op2] and
\* solve_rpn_formula of it is (a op1 b) op2 c.
C1_SameLevelAssociatesLeft ==
    (tc.form = "a op1 b op2 c" /\ Level(tc.op1) = Level(tc.op2) /\ Parsed) =>
        /\ postfix = <<to_string(tc.a), to_string(tc.b), <<tc.op1>>,
                       to_string(tc.c), <<tc.op2>>>>
        /\ (Solved /\ LeftTreeDefined(tc)) =>
              result = [kind |-> "ok", msg |-> "", value |-> LeftTreeValue(tc)]

\* C2: multiplication and division bind tighter than addition and
\* subtraction: parse_into_rpn("a A b M c") is [a, b, c, M, A] and
\* parse_into_rpn("a M b A c") is [a, b, M, c, A], and "3 + 4 * 6" evaluates
\* to 27.
C2_MultiplicativeBindsTighter ==
    (tc.form = "a op1 b op2 c" /\ Level(tc.op1) # Level(tc.op2) /\ Parsed) =>
        /\ postfix = GrammarPostfix(tc)
        /\ (Solved /\ input = <<"3", " ", "+", " ", "4", " ", "*", " ", "6">>) =>
              result = [kind |-> "ok", msg |-> "", value |-> 27]

C2_Witness ==
    /\ input = <<"3", " ", "+", " ", "4", " ", "*", " ", "6">>
    /\ pc = "solved"
    /\ postfix = <<<<"3">>, <<"4">>, <<"6">>, <<"*">>, <<"+">>>>
    /\ result.value = 27

\* C3: a bracketed group is one operand of the surrounding expression: when
\* a binary operator directly follows a closing bracket, parse_into_rpn emits
\* the postfix form of the grammar's parse tree ("a * (b) + c" gives
\* [a, b, *, c, +] and evaluates to (a * b) + c).
C3_GroupIsOneOperand ==
    (tc.form \in {"a op1 (b) op2 c", "(a op1 b) op2 c"} /\ Unsigned(tc) /\ Parsed) =>
        /\ postfix = GrammarPostfix(tc)
        /\ (Solved /\ LeftTreeDefined(tc) /\ Level(tc.op2) <= Level(tc.op1)) =>
              result = [kind |-> "ok", msg |-> "", value |-> LeftTreeValue(tc)]

\* the values a die of the fragment under resolution can show
PossibleValues ==
    UNION {{r.rolls[i].result : i \in DOMAIN r.rolls} :
             r \in {x \in resolve_roll_fragment(rolls_vector[idx]) : x.kind = "ok"}}

Rolled == pc \in {"rolled", "done"}

\* C4: roll("NdS"), N >= 0 and S > 1, produces exactly N outcomes with
\* sides = S, none below 1 or above S, and every value 1..S, S included, is a
\* possible outcome.
C4_RollRangeIsClosed ==
    (tc.form = "NdS" /\ tc.count >= 0 /\ tc.sides > 1) =>
        /\ pc # "panicked"
        /\ Rolled =>
              /\ Len(dice_rolls) = tc.count
              /\ \A i \in 1..Len(dice_rolls) :
                    dice_rolls[i].sides = tc.sides /\ dice_rolls[i].result \in 1..tc.sides
        /\ (pc = "resolving" /\ tc.count >= 1) => PossibleValues = 1..tc.sides

\* C5: a one-sided die is a boolean die: resolving "Nd1" (and "d1"), N >= 1,
\* completes normally with N outcomes, all in {0, 1}, both possible.
C5_OneSidedDieIsBoolean ==
    (tc.form = "NdS" /\ tc.count >= 1 /\ tc.sides = 1) =>
        /\ pc # "panicked"
        /\ Rolled =>
              /\ Len(dice_rolls) = tc.count
              /\ \A i \in 1..Len(dice_rolls) : dice_rolls[i].result \in {0, 1}
        /\ pc = "resolving" => PossibleValues = {0, 1}

\* C6: a division (/ or the division sign) by 0 in solve_rpn_formula returns
\* no integer and ends in the recoverable error value DivisionByZero, not in
\* an abort of the process.
C6_DivisionByZeroIsRecoverable ==
    (tc.form = "b a op" /\ tc.a = 0 /\ tc.op \in DivisionOps /\ Solved) =>
        result = [kind |-> "error", msg |-> "DivisionByZero", value |-> 0]

\* C7: an input whose brackets do not balance ("(3+4", "3+4)") never gets a
\* numeric result from roll followed by get_result: the computation ends in
\* an error.
C7_UnmatchedBracketsRejected ==
    (tc.form \in {"(a op b", "a op b)"} /\ pc \in {"panicked", "done"}) =>
        result.kind = "panic"

\* C8: a dice term whose count parses as a negative integer ("-2d6") is
\* rejected with the invalid-dice-count error; no result with zero outcomes
\* and sum 0 is returned.
C8_NegativeCountRejected ==
    (tc.form = "NdS" /\ tc.count < 0 /\ tc.sides >= 2) =>
        /\ ~Rolled
        /\ pc = "panicked" => result.msg = "Dice count value is invalid"

\* C9: solve_rpn_formula returns a value only when exactly one value is left
\* on its stack: a sequence that leaves two values (["3", "4"]) is reported as
\* malformed, as parse_into_infix reports it, and is not evaluated to its top
\* of stack.
C9_LeftoverValuesRejected ==
    (tc.form = "b a") =>
        /\ Solved => result.kind # "ok"
        /\ pc = "rendered" => infix.kind = "panic"

\* C10: rendering then parsing is the identity on well-formed postfix
\* sequences: parse_into_infix(p) is the fully bracketed string with the
\* earlier-pushed fragment as left operand, and
\* parse_into_rpn(parse_into_infix(p)) = p.
C10_RenderThenParseIsIdentity ==
    (tc.form = "well-formed") =>
        /\ pc = "rendered" => infix = [kind |-> "ok", msg |-> "", str |-> tc.inf]
        /\ pc = "reparsed" => reparsed = postfix

C10_Witness ==
    /\ tc.form = "well-formed"
    /\ tc.ops >= 2
    /\ pc = "reparsed"
    /\ Len(postfix) = 5
    /\ match_token(postfix[3]) > 0
    /\ reparsed = postfix

====
